---- MODULE Spec2Model ----
(***************************************************************************)
(* Model of the two reward-weight sweep drivers.                           *)
(*                                                                         *)
(*   grid_search.py         a script: a loop over the cartesian product of *)
(*                          three candidate lists, one training trial per  *)
(*                          combination, then a CSV dump and a max().      *)
(*   grid_search_optuna.py  objective(trial), called by an external search *)
(*                          service once per trial.                        *)
(*                                                                         *)
(* Floats.  The weights of the search space are decimal literals with at   *)
(* most two fractional digits; a weight w is held as the integer 100*w     *)
(* (0.5 -> 50, -0.04 -> -4) and FloatRepr gives back the text Python's     *)
(* f-string produces for it.  A mean reward is held as a record            *)
(* [kind, num, den]: None, NaN, -inf, or the reduced fraction num/den.     *)
(*                                                                         *)
(* Environment.  What the external collaborators do in a trial is drawn    *)
(* nondeterministically: building the reward manager / agent / save        *)
(* handler may raise, train() may raise, monitor.csv may be missing, and   *)
(* when it exists its 'r' column is a sequence of per-episode rewards.     *)
(***************************************************************************)
EXTENDS Integers, Sequences, FiniteSets, TLC

(* ---------------------------- bounds ----------------------------------- *)
\* a per-episode reward in a log is -1, 0 or MaxReward
MaxReward == 1
\* a log holds 0 .. MaxEpisodes episode rows
MaxEpisodes == 2
\* at most MaxScored trials of one grid run find their log file
MaxScored == 1
\* the search service asks for at most MaxTrials objective() calls
MaxTrials == 3

VARIABLES
    pc,         \* grid script position: "loop", "select", "done", "crashed"
    idx,        \* 1-based position of the product iterator (next combination)
    results,    \* the module-level list `results`
    attempted,  \* triples train() has been called with, in call order
    paths,      \* save_path handed to SaveHandler for each attempted trial
    outcomes,   \* per attempted trial: "raised", "missing" or "scored"
    lastLog,    \* 'r' rows the latest trial read from its monitor.csv (<<>>: none)
    csv,        \* tables written to gridsearch_results.csv, in write order
    best,       \* the script's `best` (NoTrial before the assignment)
    reported,   \* what print(best) has put on the console (NoTrial before)
    crash,      \* "none", or where an uncaught exception left the script
    number,     \* trial.number the search service hands out next
    call,       \* the latest objective() invocation: inputs and result
    prev        \* outcome and result of the invocation before that one

gridVars == <<pc, idx, results, attempted, paths, outcomes, lastLog, csv,
              best, reported, crash>>
optunaVars == <<number, call, prev>>
vars == <<pc, idx, results, attempted, paths, outcomes, lastLog, csv, best,
          reported, crash, number, call, prev>>

(* ---------------------------- floats ----------------------------------- *)
Abs(n) == IF n < 0 THEN -n ELSE n

RECURSIVE GCD(_, _)
GCD(a, b) == IF b = 0 THEN a ELSE GCD(b, a % b)

None == [kind |-> "None", num |-> 0, den |-> 1]
NaN == [kind |-> "NaN", num |-> 0, den |-> 1]
NegInf == [kind |-> "ninf", num |-> 0, den |-> 1]

\* the float n/d (d > 0), in lowest terms
Frac(n, d) ==
    LET g == GCD(Abs(n), d)
    IN [kind |-> "float", num |-> n \div g, den |-> d \div g]

\* Python truth value of a mean_reward: None and 0.0 are falsy, nan is truthy
Truthy(v) ==
    CASE v.kind = "None" -> FALSE
      [] v.kind = "float" -> v.num # 0
      [] OTHER -> TRUE

\* a > b on Python floats: every comparison with nan is False
FloatGT(a, b) ==
    CASE a.kind = "NaN" \/ b.kind = "NaN" -> FALSE
      [] a.kind = "ninf" -> FALSE
      [] b.kind = "ninf" -> TRUE
      [] OTHER -> a.num * b.den > b.num * a.den

RECURSIVE SumSeq(_)
SumSeq(s) == IF s = <<>> THEN 0 ELSE s[1] + SumSeq(Tail(s))

\* text of the float h/100 as str()/f-string prints it: shortest repr,
\* always with a fractional part ("1.0", "0.5", "-0.04")
FloatRepr(h) ==
    LET a == Abs(h)
        ip == a \div 100
        fp == a % 100
        frac == IF fp % 10 = 0
                   THEN ToString(fp \div 10)
                   ELSE ToString(fp \div 10) \o ToString(fp % 10)
    IN (IF h < 0 THEN "-" ELSE "") \o ToString(ip) \o "." \o frac


\* a mean that forgets to divide by the number of rows
MeanAsSum(log) == IF log = <<>> THEN NaN ELSE Frac(SumSeq(log), 1)

\* pandas: df['r'].mean() over the episode rows; an empty column gives nan
Mean(log) == IF log = <<>> THEN NaN ELSE Frac(SumSeq(log), Len(log))

\* the 'r' columns a log file can hold within the bounds
Logs == UNION {[1..n -> {-1, 0, MaxReward}] : n \in 0..MaxEpisodes}

(* ---------------------------- grid sweep ------------------------------- *)
search_space ==
    [damage_interaction_reward |-> <<50, 100>>,
     danger_zone_reward |-> <<10, 50>>,
     penalize_attack_reward |-> <<-10, -4>>]

\* a product whose leftmost list advances fastest
ProductLeftFastest(a, b, c) ==
    [k \in 1..(Len(a) * Len(b) * Len(c)) |->
        <<a[((k - 1) % Len(a)) + 1],
          b[(((k - 1) \div Len(a)) % Len(b)) + 1],
          c[((k - 1) \div (Len(a) * Len(b))) + 1]>>]

\* itertools.product(a, b, c): the rightmost list advances fastest
Product(a, b, c) ==
    [k \in 1..(Len(a) * Len(b) * Len(c)) |->
        <<a[((k - 1) \div (Len(b) * Len(c))) + 1],
          b[(((k - 1) \div Len(c)) % Len(b)) + 1],
          c[((k - 1) % Len(c)) + 1]>>]

\* the combinations the for loop walks through
trials ==
    Product(search_space.damage_interaction_reward,
            search_space.danger_zone_reward,
            search_space.penalize_attack_reward)

NumTrials == Len(trials)

\* a save path that leaves the attack weight out
SavePathNoAttack(t) ==
    "checkpoints/gridsearch_d" \o FloatRepr(t[1]) \o "_z" \o FloatRepr(t[2])

\* save_path = f'checkpoints/gridsearch_d{dmg}_z{dz}_a{atk}'
SavePath(t) ==
    "checkpoints/gridsearch_d" \o FloatRepr(t[1]) \o "_z" \o FloatRepr(t[2])
        \o "_a" \o FloatRepr(t[3])

\* the dict appended to results for one trial
Entry(t, mean_reward, save_path) ==
    [damage_interaction_reward |-> t[1],
     danger_zone_reward |-> t[2],
     penalize_attack_reward |-> t[3],
     mean_reward |-> mean_reward,
     checkpoint |-> save_path]

\* value of `best` / of the console report before they are set
NoTrial == Entry(<<0, 0, 0>>, None, "")

\* an insert at the front instead of an append
PrependResult(rs, e) == <<e>> \o rs

\* results.append(entry)
AppendResult(rs, e) == Append(rs, e)

\* key=lambda x: x["mean_reward"] or float('-inf')
Key(x) == IF Truthy(x.mean_reward) THEN x.mean_reward ELSE NegInf

\* a max() in which a later item also wins a tie
RECURSIVE MaxFromLastWins(_, _, _)
MaxFromLastWins(rs, i, cand) ==
    IF i > Len(rs) THEN cand
    ELSE MaxFromLastWins(rs, i + 1,
             IF FloatGT(Key(cand), Key(rs[i])) THEN cand ELSE rs[i])

\* max(rs, key=Key) on a non-empty list: the first item is the candidate and
\* a later item replaces it only when its key is strictly greater
RECURSIVE MaxFrom(_, _, _)
MaxFrom(rs, i, cand) ==
    IF i > Len(rs) THEN cand
    ELSE MaxFrom(rs, i + 1, IF FloatGT(Key(rs[i]), Key(cand)) THEN rs[i] ELSE cand)

PyMax(rs) == MaxFrom(rs, 2, rs[1])

\* a mean_reward that carries no number: None, or pandas' missing value nan
IsNull(v) == v.kind \in {"None", "NaN"}

\* trials so far that found their log file
NumScored == Cardinality({i \in DOMAIN outcomes : outcomes[i] = "scored"})

\* lines 31-52: a constructor of the trial's collaborators raises; the call
\* is outside the try block, so the exception ends the script
TrialSetupRaises ==
    /\ pc = "loop"
    /\ idx <= NumTrials
    /\ pc' = "crashed"
    /\ crash' = "setup"
    /\ UNCHANGED <<idx, results, attempted, paths, outcomes, lastLog, csv,
                   best, reported>>
    /\ UNCHANGED optunaVars

\* an except clause that records the failed trial with a null score
TrainRaisesRecorded ==
    /\ pc = "loop"
    /\ idx <= NumTrials
    /\ attempted' = Append(attempted, trials[idx])
    /\ paths' = Append(paths, SavePath(trials[idx]))
    /\ outcomes' = Append(outcomes, "raised")
    /\ results' = AppendResult(results,
                      Entry(trials[idx], None, SavePath(trials[idx])))
    /\ lastLog' = <<>>
    /\ idx' = idx + 1
    /\ UNCHANGED <<pc, csv, best, reported, crash>>
    /\ UNCHANGED optunaVars

\* lines 55-64, 82-83: train() raises, the except clause prints and the loop
\* goes on
TrainRaises ==
    /\ pc = "loop"
    /\ idx <= NumTrials
    /\ attempted' = Append(attempted, trials[idx])
    /\ paths' = Append(paths, SavePath(trials[idx]))
    /\ outcomes' = Append(outcomes, "raised")
    /\ lastLog' = <<>>
    /\ idx' = idx + 1
    /\ UNCHANGED <<pc, results, csv, best, reported, crash>>
    /\ UNCHANGED optunaVars

\* lines 55-81: train() returns, monitor.csv is not there
TrainOkLogMissing ==
    /\ pc = "loop"
    /\ idx <= NumTrials
    /\ attempted' = Append(attempted, trials[idx])
    /\ paths' = Append(paths, SavePath(trials[idx]))
    /\ outcomes' = Append(outcomes, "missing")
    /\ results' = AppendResult(results,
                      Entry(trials[idx], None, SavePath(trials[idx])))
    /\ lastLog' = <<>>
    /\ idx' = idx + 1
    /\ UNCHANGED <<pc, csv, best, reported, crash>>
    /\ UNCHANGED optunaVars

\* lines 55-81: train() returns, monitor.csv exists and is averaged (the
\* guard on NumScored is the exploration bound MaxScored, not program logic)
TrainOkLogExists ==
    /\ pc = "loop"
    /\ idx <= NumTrials
    /\ NumScored < MaxScored
    /\ \E log \in Logs :
        /\ lastLog' = log
        /\ results' = AppendResult(results,
                          Entry(trials[idx], Mean(log), SavePath(trials[idx])))
    /\ attempted' = Append(attempted, trials[idx])
    /\ paths' = Append(paths, SavePath(trials[idx]))
    /\ outcomes' = Append(outcomes, "scored")
    /\ idx' = idx + 1
    /\ UNCHANGED <<pc, csv, best, reported, crash>>
    /\ UNCHANGED optunaVars

\* line 86: the product is exhausted; pd.DataFrame(results).to_csv(...)
SaveResults ==
    /\ pc = "loop"
    /\ idx > NumTrials
    /\ csv' = Append(csv, results)
    /\ pc' = "select"
    /\ UNCHANGED <<idx, results, attempted, paths, outcomes, lastLog, best,
                   reported, crash>>
    /\ UNCHANGED optunaVars

\* lines 89-91: best = max(results, key=...); print(best).  max() of an empty
\* list raises ValueError, which nothing catches
SelectBest ==
    /\ pc = "select"
    /\ IF results = <<>>
          THEN /\ pc' = "crashed"
               /\ crash' = "max"
               /\ UNCHANGED <<best, reported>>
          ELSE /\ best' = PyMax(results)
               /\ reported' = best'
               /\ pc' = "done"
               /\ UNCHANGED crash
    /\ UNCHANGED <<idx, results, attempted, paths, outcomes, lastLog, csv>>
    /\ UNCHANGED optunaVars

(* ------------------------- guided search ------------------------------- *)
\* the sentinel score of a crashed run or a missing log
Sentinel == -999

\* trial.suggest_float(name, low, high): a value of [low, high]; u = 0 is the
\* low end of the range and u = 1 the high end
SuggestFloat(low, high, u) == low + u * (high - low)

\* the four suggested weights (as hundredths) of one trial; the sampler's
\* draws are the two opposite corners of the box
Suggestions ==
    {<<SuggestFloat(50, 200, u), SuggestFloat(5, 50, u),
       SuggestFloat(-15, -2, u), SuggestFloat(-50, 50, u)>> : u \in {0, 1}}

\* save_path = f"checkpoints/optuna_trial_{trial.number}"
OptunaSavePath(n) == "checkpoints/optuna_trial_" \o ToString(n)

NoCall ==
    [number |-> -1, params |-> <<0, 0, 0, 0>>, save_path |-> "",
     outcome |-> "none", log |-> <<>>, status |-> "none", ret |-> None]

\* one objective(trial) invocation, from the suggestions to its exit
Invocation(p, outcome, log, status, ret) ==
    [number |-> number, params |-> p, save_path |-> OptunaSavePath(number),
     outcome |-> outcome, log |-> log, status |-> status, ret |-> ret]

\* what is kept of an invocation once the next one has started
Summary(c) == [outcome |-> c.outcome, status |-> c.status, ret |-> c.ret]

\* lines 22-60: a constructor or os.makedirs raises before the try block
ObjectiveSetupRaises ==
    /\ number < MaxTrials
    /\ \E p \in Suggestions :
        call' = Invocation(p, "setupRaised", <<>>, "raised", None)
    /\ number' = number + 1
    /\ prev' = Summary(call)
    /\ UNCHANGED gridVars

\* lines 63-75: train() raises; return -999
ObjectiveTrainRaises ==
    /\ number < MaxTrials
    /\ \E p \in Suggestions :
        call' = Invocation(p, "trainRaised", <<>>, "returned", Frac(Sentinel, 1))
    /\ number' = number + 1
    /\ prev' = Summary(call)
    /\ UNCHANGED gridVars

\* a missing log reported as a null score, as the grid script records it
ObjectiveLogMissingNull ==
    /\ number < MaxTrials
    /\ \E p \in Suggestions :
        call' = Invocation(p, "missing", <<>>, "returned", None)
    /\ number' = number + 1
    /\ prev' = Summary(call)
    /\ UNCHANGED gridVars

\* lines 78-79, 84-86: train() returns, monitor.csv is not there; return -999
ObjectiveLogMissing ==
    /\ number < MaxTrials
    /\ \E p \in Suggestions :
        call' = Invocation(p, "missing", <<>>, "returned", Frac(Sentinel, 1))
    /\ number' = number + 1
    /\ prev' = Summary(call)
    /\ UNCHANGED gridVars

\* lines 78-83: train() returns, monitor.csv exists; return its mean
ObjectiveLogExists ==
    /\ number < MaxTrials
    /\ \E p \in Suggestions, log \in Logs :
        call' = Invocation(p, "scored", log, "returned", Mean(log))
    /\ number' = number + 1
    /\ prev' = Summary(call)
    /\ UNCHANGED gridVars

(* ------------------------- specifications ------------------------------ *)
Init ==
    /\ pc = "loop"
    /\ idx = 1
    /\ results = <<>>
    /\ attempted = <<>>
    /\ paths = <<>>
    /\ outcomes = <<>>
    /\ lastLog = <<>>
    /\ csv = <<>>
    /\ best = NoTrial
    /\ reported = NoTrial
    /\ crash = "none"
    /\ number = 0
    /\ call = NoCall
    /\ prev = Summary(NoCall)

Next ==
    \/ TrialSetupRaises
    \/ TrainRaises
    \/ TrainOkLogMissing
    \/ TrainOkLogExists
    \/ SaveResults
    \/ SelectBest

Spec == Init /\ [][Next]_vars

NextObjective ==
    \/ ObjectiveSetupRaises
    \/ ObjectiveTrainRaises
    \/ ObjectiveLogMissing
    \/ ObjectiveLogExists

SpecObjective == Init /\ [][NextObjective]_vars

(* ------------------------------ properties ----------------------------- *)
\* v is the arithmetic mean of the rows of log (nan for no rows)
IsMeanOf(v, log) ==
    IF log = <<>>
        THEN v.kind = "NaN"
        ELSE /\ v.kind = "float"
             /\ v.den > 0
             /\ v.num * Len(log) = SumSeq(log) * v.den

\* the product iterator is exhausted: every combination has had its turn
LoopExited == idx > NumTrials

\* positions of the result set whose mean_reward is a number
ScoredEntries == {i \in DOMAIN results : ~IsNull(results[i].mean_reward)}

\* C1: whenever the result set holds at least one entry with a non-null
\* mean_reward, the trial reported as best is one of those entries and no
\* non-null entry has a greater mean_reward (zero and negative scores
\* included).
BestIsMaxOfScored ==
    (pc = "done" /\ ScoredEntries # {}) =>
        /\ \E i \in ScoredEntries : reported = results[i]
        /\ \A i \in ScoredEntries :
               ~FloatGT(results[i].mean_reward, reported.mean_reward)

\* C2: no failure that occurs while one trial is processed leaves the grid
\* loop: the script is never stopped by an exception while combinations are
\* still to be attempted.
NoFailureEscapesTrial == ~(pc = "crashed" /\ idx <= NumTrials)

\* C3: once all combinations have been attempted, the script writes the
\* whole result set to the table exactly once, and then selects and reports
\* a best trial; nothing stops it before the report, whatever the per-trial
\* outcomes were.
SweepAlwaysReports ==
    LoopExited =>
        /\ pc # "crashed"
        /\ pc \in {"select", "done"} => csv = <<results>>
        /\ pc = "done" =>
               /\ reported = best
               /\ \E i \in DOMAIN results : best = results[i]

\* every (damage, danger, attack) triple of the three candidate lists
Combos ==
    {<<search_space.damage_interaction_reward[i],
       search_space.danger_zone_reward[j],
       search_space.penalize_attack_reward[k]>> :
        i \in DOMAIN search_space.damage_interaction_reward,
        j \in DOMAIN search_space.danger_zone_reward,
        k \in DOMAIN search_space.penalize_attack_reward}

\* the checkpoint path each triple stands for
PathOfCombo == [t \in Combos |-> SavePath(t)]

NestedOrder ==
    << <<50, 10, -10>>, <<50, 10, -4>>, <<50, 50, -10>>, <<50, 50, -4>>,
       <<100, 10, -10>>, <<100, 10, -4>>, <<100, 50, -10>>, <<100, 50, -4>> >>

\* C5: trials are attempted in nested order, damage outermost, danger in the
\* middle, attack innermost: what has been attempted so far is always an
\* initial part of (0.5,0.1,-0.1), (0.5,0.1,-0.04), (0.5,0.5,-0.1), ...,
\* (1.0,0.5,-0.04), and is all eight of them when the loop is over.
AttemptedInNestedOrder ==
    /\ Len(attempted) <= Len(NestedOrder)
    /\ attempted = SubSeq(NestedOrder, 1, Len(attempted))
    /\ LoopExited => attempted = NestedOrder

NestedOrderWalked ==
    /\ LoopExited
    /\ attempted[1] = <<50, 10, -10>>
    /\ attempted[2] = <<50, 10, -4>>
    /\ attempted[8] = <<100, 50, -4>>
    /\ paths[2] = "checkpoints/gridsearch_d0.5_z0.1_a-0.04"

\* C6: when a trial's train call raises, the error is caught (the script is
\* not stopped by it), the result set never holds an entry for that trial,
\* and the loop has moved on to the next combination.
TrainFailureDropsTrial ==
    /\ Len(outcomes) = Len(attempted)
    /\ \A i \in DOMAIN outcomes :
           outcomes[i] = "raised" =>
               /\ \A j \in DOMAIN results :
                      /\ results[j].checkpoint # paths[i]
                      /\ <<results[j].damage_interaction_reward,
                           results[j].danger_zone_reward,
                           results[j].penalize_attack_reward>> # attempted[i]
               /\ idx > i
               /\ i = Len(outcomes) => idx = i + 1 /\ crash # "train"
    /\ pc = "crashed" => crash \in {"setup", "max"}

SweepWentOnAfterFailure ==
    /\ Len(outcomes) >= 3
    /\ outcomes[1] = "missing"
    /\ outcomes[2] = "raised"
    /\ outcomes[3] = "scored"
    /\ Len(results) = 2

\* C7: a trial whose train call returns and whose log file is missing is in
\* the result set with its three weights, its checkpoint path and a null
\* mean_reward; a trial whose log exists is recorded with the arithmetic
\* mean of the log's reward column.
MissingLogKeptWithNull ==
    /\ \A i \in DOMAIN outcomes :
           outcomes[i] = "missing" =>
               \E j \in DOMAIN results :
                   results[j] =
                       [damage_interaction_reward |-> attempted[i][1],
                        danger_zone_reward |-> attempted[i][2],
                        penalize_attack_reward |-> attempted[i][3],
                        mean_reward |-> None,
                        checkpoint |-> paths[i]]
    /\ \A i \in DOMAIN outcomes :
           (i = Len(outcomes) /\ outcomes[i] # "raised") =>
               LET e == results[Len(results)]
               IN /\ e.damage_interaction_reward = attempted[i][1]
                  /\ e.danger_zone_reward = attempted[i][2]
                  /\ e.penalize_attack_reward = attempted[i][3]
                  /\ e.checkpoint = paths[i]
                  /\ outcomes[i] = "missing" => e.mean_reward = None
                  /\ outcomes[i] = "scored" => IsMeanOf(e.mean_reward, lastLog)

MissingThenAveraged ==
    /\ Len(outcomes) >= 2
    /\ outcomes[1] = "missing"
    /\ outcomes[Len(outcomes)] = "scored"
    /\ lastLog = <<1, 0>>
    /\ results[Len(results)].mean_reward = [kind |-> "float", num |-> 1, den |-> 2]
    /\ results[1].mean_reward = None

\* C8: an objective() invocation whose train call raises and one whose log
\* file is missing both return the same score, -999; an invocation whose
\* log exists returns the mean of the log's reward column.
ObjectiveScore ==
    LET score(c) ==
            /\ c.outcome \in {"trainRaised", "missing"} =>
                   /\ c.status = "returned"
                   /\ c.ret = [kind |-> "float", num |-> -999, den |-> 1]
        same(c, d) ==
            (c.outcome \in {"trainRaised", "missing"}
                /\ d.outcome \in {"trainRaised", "missing"}) => c.ret = d.ret
    IN /\ score(call)
       /\ score(prev)
       /\ same(call, prev)
       /\ call.outcome = "scored" =>
              /\ call.status = "returned"
              /\ IsMeanOf(call.ret, call.log)

CrashAndMissingLogAlike ==
    /\ prev.outcome = "trainRaised"
    /\ call.outcome = "missing"
    /\ prev.ret = call.ret
    /\ call.save_path = "checkpoints/optuna_trial_1"

\* C9: when the reported result set is non-empty and every mean_reward in it
\* is null, the best trial is the first recorded one.
AllNullPicksFirst ==
    (pc = "done" /\ ScoredEntries = {}) =>
        /\ best = results[1]
        /\ reported = results[1]

AllNullReported ==
    /\ pc = "done"
    /\ ScoredEntries = {}
    /\ Len(results) >= 3
    /\ outcomes[1] = "raised"
    /\ best.checkpoint = paths[2]

\* the attempted triples whose trial did not raise, in attempt order
RECURSIVE SurvivorsUpTo(_)
SurvivorsUpTo(n) ==
    IF n = 0 THEN <<>>
    ELSE IF outcomes[n] = "raised"
            THEN SurvivorsUpTo(n - 1)
            ELSE Append(SurvivorsUpTo(n - 1), attempted[n])

Survivors == SurvivorsUpTo(Len(outcomes))

RecordedTriples ==
    [j \in DOMAIN results |->
        <<results[j].damage_interaction_reward,
          results[j].danger_zone_reward,
          results[j].penalize_attack_reward>>]

\* C10: the result set is append-only: a step never shortens it, adds at
\* most one entry at the end, leaves the entries already there as they are,
\* and the entries are the attempted trials, minus the raising ones, in
\* enumeration order.
ResultsAppendOnly ==
    [][/\ Len(results') \in {Len(results), Len(results) + 1}
       /\ SubSeq(results', 1, Len(results)) = results
       /\ RecordedTriples' = Survivors'
       /\ Len(results') <= Len(attempted')]_vars

ResultsSkipFailures ==
    /\ pc = "done"
    /\ outcomes[1] = "raised"
    /\ outcomes[3] = "raised"
    /\ Len(results) = 6
    /\ csv = <<results>>

====
